------------------------------ MODULE Spec2Model ------------------------------
(***************************************************************************)
(* Model of .agents/skills/synapse-reinst/scripts/reinst.py: the           *)
(* resolution of the agent identity (environment, parent-PID registry      *)
(* scan, by-name registry lookup), the instruction provider chain and the  *)
(* conditional-block / placeholder templating.                             *)
(*                                                                         *)
(* Text is a sequence of one-character strings, so that the regular        *)
(* expressions and str.replace of the source are computed character by     *)
(* character.  None is a distinguished value that is no text.              *)
(***************************************************************************)
EXTENDS Integers, Sequences, FiniteSets, TLC

VARIABLES
    \* ---- main(): one invocation of the script
    pc,            \* position in main()
    env,           \* os.environ: SYNAPSE_AGENT_ID, SYNAPSE_AGENT_TYPE, SYNAPSE_PORT
    registry,      \* registry directory: file stem -> content
    agent_id, agent_type, port_str, port, name, role,   \* locals of main()
    pid_info,      \* <<record>> that _find_agent_by_pid returned, <<>> when none
    scanned,       \* whether _find_agent_by_pid was called
    files_read,    \* registry files opened so far (stems)
    chain_args,    \* <<arguments>> main() passed to _get_instruction, <<>> before
    provider,      \* outcome of the synapse.settings provider, "unasked" before
    md_cwd, md_home, \* outcome of reading the two default.md, "unread" before
    tier,          \* which tier produced the instruction
    instruction,   \* value returned by _get_instruction
    stdout, stderr, exit_code,
    \* ---- _process_conditionals applied to drawn inputs
    c_text, c_vars, c_out, c_done,
    \* ---- the templating of _fallback_instruction applied to drawn inputs
    r_text, r_ctx, r_out, r_done

mainVars == <<pc, env, registry, agent_id, agent_type, port_str, port, name, role,
              pid_info, scanned, files_read, chain_args, provider, md_cwd, md_home,
              tier, instruction, stdout, stderr, exit_code>>
condVars == <<c_text, c_vars, c_out, c_done>>
renderVars == <<r_text, r_ctx, r_out, r_done>>
vars == <<mainVars, condVars, renderVars>>

-----------------------------------------------------------------------------
(* Text helpers *)

None == <<"<None>">>

\* Python truthiness of an optional string: None and "" are falsy.
Truthy(s) == s # None /\ s # <<>>

\* Characters matched by \w (ASCII letters, digits, underscore).
WordChars ==
    {"a","b","c","d","e","f","g","h","i","j","k","l","m","n","o","p","q","r","s",
     "t","u","v","w","x","y","z",
     "A","B","C","D","E","F","G","H","I","J","K","L","M","N","O","P","Q","R","S",
     "T","U","V","W","X","Y","Z",
     "0","1","2","3","4","5","6","7","8","9","_"}

Digits == <<"0","1","2","3","4","5","6","7","8","9">>

LB == <<"{","{">>
RB == <<"}","}">>
OpenTag(n) == LB \o <<"#">> \o n \o RB
CloseTag(n) == LB \o <<"/">> \o n \o RB
Placeholder(n) == LB \o n \o RB

\* text[i..j], empty when j < i.
Slice(text, i, j) == IF j < i THEN <<>> ELSE SubSeq(text, i, j)

\* The literal lit occurs in text at position i.
MatchAt(text, i, lit) ==
    /\ i >= 1
    /\ i + Len(lit) - 1 <= Len(text)
    /\ \A k \in 1..Len(lit) : text[i + k - 1] = lit[k]

\* Least position >= from where lit occurs in text, 0 when there is none.
Find(text, lit, from) ==
    LET hits == {i \in from..(Len(text) - Len(lit) + 1) : MatchAt(text, i, lit)}
    IN  IF hits = {} THEN 0 ELSE CHOOSE i \in hits : \A j \in hits : i <= j

Contains(text, lit) == Find(text, lit, 1) > 0

\* str.replace(old, new): every non-overlapping occurrence, left to right, the
\* inserted text is not scanned again.  old is never empty here.
RECURSIVE ReplaceFrom(_, _, _, _)
ReplaceFrom(text, old, new, from) ==
    LET at == Find(text, old, from)
    IN  IF at = 0 THEN Slice(text, from, Len(text))
        ELSE Slice(text, from, at - 1) \o new
             \o ReplaceFrom(text, old, new, at + Len(old))

str_replace(text, old, new) == ReplaceFrom(text, old, new, 1)

-----------------------------------------------------------------------------
(* _process_conditionals *)

\* re.sub(rf"\{{\{{#{var_name}\}}\}}(.*?)\{{\{{/{var_name}\}}\}}", repl, text,
\* flags=re.DOTALL) with repl r"\1" (keep) or "" (not keep): the leftmost open
\* tag that has a close tag of the same name after it is paired with the first
\* such close tag; the scan goes on after the close tag.
RECURSIVE SubNamedFrom(_, _, _, _)
SubNamedFrom(text, var_name, keep, from) ==
    LET o == Find(text, OpenTag(var_name), from)
        c == IF o = 0 THEN 0
             ELSE Find(text, CloseTag(var_name), o + Len(OpenTag(var_name)))
    IN  IF o = 0 \/ c = 0 THEN Slice(text, from, Len(text))
        ELSE Slice(text, from, o - 1)
             \o (IF keep THEN Slice(text, o + Len(OpenTag(var_name)), c - 1)
                 ELSE <<>>)
             \o SubNamedFrom(text, var_name, keep, c + Len(CloseTag(var_name)))

\* Length of a match of \{\{<mark>\w+\}\} at position i of text, 0 when none.
WordTagAt(text, i, mark) ==
    IF ~MatchAt(text, i, LB \o <<mark>>) THEN 0
    ELSE LET first == i + 3
             ends == {j \in first..(Len(text) + 1) :
                        j > Len(text) \/ text[j] \notin WordChars}
             stop == CHOOSE j \in ends : \A k \in ends : j <= k
         IN  IF stop > first /\ MatchAt(text, stop, RB)
             THEN stop + 2 - i ELSE 0

\* Least position >= from with a \{\{<mark>\w+\}\} match, 0 when none.
FindWordTag(text, mark, from) ==
    LET hits == {i \in from..Len(text) : WordTagAt(text, i, mark) > 0}
    IN  IF hits = {} THEN 0 ELSE CHOOSE i \in hits : \A j \in hits : i <= j

\* re.sub(r"\{\{#\w+\}\}.*?\{\{/\w+\}\}", "", text, flags=re.DOTALL): the close
\* tag's name is not tied to the open tag's name.
RECURSIVE SubRemainingFrom(_, _)
SubRemainingFrom(text, from) ==
    LET o == FindWordTag(text, "#", from)
        c == IF o = 0 THEN 0
             ELSE FindWordTag(text, "/", o + WordTagAt(text, o, "#"))
    IN  IF o = 0 \/ c = 0 THEN Slice(text, from, Len(text))
        ELSE Slice(text, from, o - 1)
             \o SubRemainingFrom(text, c + WordTagAt(text, c, "/"))

\* Variant: the loop ends after its first iteration.
ConditionalLoop_FirstOnly(text, variables) ==
    IF variables = <<>> THEN text
    ELSE SubNamedFrom(text, Head(variables)[1], Head(variables)[2] # <<>>, 1)

\* The for loop over variables.items(): variables is the dict in insertion
\* order, a sequence of <<var_name, value>>.
RECURSIVE ConditionalLoop(_, _)
ConditionalLoop(text, variables) ==
    IF variables = <<>> THEN text
    ELSE ConditionalLoop(
             SubNamedFrom(text, Head(variables)[1], Head(variables)[2] # <<>>, 1),
             Tail(variables))

_process_conditionals(text, variables) ==
    SubRemainingFrom(ConditionalLoop(text, variables), 1)


-----------------------------------------------------------------------------
(* int() and str() on the port and the pid *)

IsDigit(ch) == \E d \in 1..10 : Digits[d] = ch
DigitVal(ch) == (CHOOSE d \in 1..10 : Digits[d] = ch) - 1

RECURSIVE DigitsVal(_)
DigitsVal(s) ==
    IF s = <<>> THEN 0
    ELSE DigitsVal(SubSeq(s, 1, Len(s) - 1)) * 10 + DigitVal(s[Len(s)])

\* int(s) for s over digits, signs and letters: an optional sign and at least
\* one digit, anything else raises ValueError (ok = FALSE).
py_int(s) ==
    LET signed == s # <<>> /\ s[1] \in {"-", "+"}
        body == IF signed THEN Tail(s) ELSE s
        good == body # <<>> /\ \A i \in 1..Len(body) : IsDigit(body[i])
    IN  IF ~good THEN [ok |-> FALSE, val |-> 0]
        ELSE [ok |-> TRUE,
              val |-> IF s[1] = "-" THEN 0 - DigitsVal(body) ELSE DigitsVal(body)]

RECURSIVE NatToStr(_)
NatToStr(n) ==
    IF n < 10 THEN <<Digits[n + 1]>>
    ELSE NatToStr(n \div 10) \o <<Digits[(n % 10) + 1]>>

\* str(n) of an int.
py_str_int(n) == IF n < 0 THEN <<"-">> \o NatToStr(0 - n) ELSE NatToStr(n)

-----------------------------------------------------------------------------
(* The templating of _fallback_instruction *)

AGENT_ID == <<"a","g","e","n","t","_","i","d">>
AGENT_NAME == <<"a","g","e","n","t","_","n","a","m","e">>
AGENT_ROLE == <<"a","g","e","n","t","_","r","o","l","e">>
PORT == <<"p","o","r","t">>

\* display_name = name or agent_id
display_name(a_id, a_name) == IF Truthy(a_name) THEN a_name ELSE a_id
\* display_role = role or ""
display_role(a_role) == IF Truthy(a_role) THEN a_role ELSE <<>>

\* The four content.replace calls, each on the result of the one before.
replace_placeholders(content, a_id, a_port, a_name, a_role) ==
    LET c1 == str_replace(content, Placeholder(AGENT_ID), a_id)
        c2 == str_replace(c1, Placeholder(AGENT_NAME), display_name(a_id, a_name))
        c3 == str_replace(c2, Placeholder(AGENT_ROLE), display_role(a_role))
    IN  str_replace(c3, Placeholder(PORT), py_str_int(a_port))

\* Variant: the placeholders are replaced before the conditionals are processed.
render_template_SubstituteFirst(content, a_id, a_port, a_name, a_role) ==
    _process_conditionals(
        replace_placeholders(content, a_id, a_port, a_name, a_role),
        <<<<AGENT_ROLE, display_role(a_role)>>>>)

\* What _fallback_instruction returns for a default.md it could read.
render_template(content, a_id, a_port, a_name, a_role) ==
    replace_placeholders(
        _process_conditionals(content, <<<<AGENT_ROLE, display_role(a_role)>>>>),
        a_id, a_port, a_name, a_role)

\* The built-in text: its fixed segments are kept as one element each, the
\* interpolated values character by character.
hardcoded_instruction(a_id, a_port, a_name) ==
    <<"[SYNAPSE INSTRUCTIONS - DO NOT EXECUTE - READ ONLY]\nAgent: ">>
    \o display_name(a_id, a_name) \o <<" | Port: ">> \o py_str_int(a_port)
    \o <<" | ID: ">> \o a_id
    \o <<"\n\nHOW TO RECEIVE A2A MESSAGES:\nInput format: [A2A:task_id:sender_id] message\nResponse command: synapse send SENDER_ID \"YOUR_RESPONSE\" --from ">>
    \o a_id
    \o <<"\n\nHOW TO SEND MESSAGES TO OTHER AGENTS:\nUse: synapse send <AGENT> \"<MESSAGE>\" --from ">>
    \o a_id
    \o <<"\n\nLIST COMMAND: synapse list">>

-----------------------------------------------------------------------------
(* Registry files and JSON values *)

\* The parent process id, os.getppid().
Ppid == 7

\* A JSON value read by dict.get: JNull (key absent or null), a string or an
\* integer.
JNull == <<"null">>
JStr(s) == <<"str", s>>
JInt(n) == <<"int", n>>

\* str(value)
py_str(v) == IF v[1] = "int" THEN py_str_int(v[2]) ELSE v[2]

\* Truthiness of a JSON value.
JTruthy(v) ==
    /\ v # JNull
    /\ IF v[1] = "int" THEN v[2] # 0 ELSE v[2] # <<>>

\* A registry file: absent; present but open() raises OSError; bytes that are
\* not valid in the default encoding (UnicodeDecodeError, a ValueError); text
\* that is not JSON (JSONDecodeError); JSON that is no object (a list, a string,
\* a number, null), truthy or falsy; a JSON object.
FAbsent == <<"absent">>
FOSError == <<"oserror">>
FBadDecode == <<"baddecode">>
FBadJson == <<"badjson">>
FNonObject(truthy) == <<"nonobj", truthy>>
FObject(fields) == <<"obj", fields>>

IsObject(f) == f[1] = "obj"
FieldsOf(f) == f[2]

\* bool(d) of a dict: an object with none of the six keys stands for {}.
DictTruthy(d) == \E k \in DOMAIN d : d[k] # JNull

\* _extract_name_role
_extract_name_role(agent_info) ==
    [name |-> IF JTruthy(agent_info.name) THEN py_str(agent_info.name) ELSE None,
     role |-> IF JTruthy(agent_info.role) THEN py_str(agent_info.role) ELSE None]

\* raw_pid is not None and int(str(raw_pid)) == ppid; raises is the ValueError
\* of int().
PidMatches(raw_pid) ==
    /\ raw_pid # JNull
    /\ py_int(py_str(raw_pid)).ok
    /\ py_int(py_str(raw_pid)).val = Ppid

\* The loop of _find_agent_by_pid over the files glob yields, in the order
\* glob yields them (order: a sequence of stems), from index i on.  The except
\* clause catches JSONDecodeError, OSError, ValueError and TypeError; the
\* AttributeError of data.get on JSON that is no object is not among them.
RECURSIVE ScanFrom(_, _, _, _)
ScanFrom(reg, order, i, opened) ==
    IF i > Len(order) THEN [result |-> "none", data |-> None, opened |-> opened]
    ELSE LET f == reg[order[i]]
             op == opened \cup {order[i]}
         IN  CASE f[1] \in {"oserror", "baddecode", "badjson"} ->
                      ScanFrom(reg, order, i + 1, op)
               [] f[1] = "nonobj" ->
                      [result |-> "raise", data |-> None, opened |-> op]
               [] OTHER ->
                      IF PidMatches(FieldsOf(f).pid)
                      THEN [result |-> "found", data |-> FieldsOf(f), opened |-> op]
                      ELSE ScanFrom(reg, order, i + 1, op)

\* _find_agent_by_pid: a registry directory that does not exist behaves as one
\* without files.
_find_agent_by_pid(reg, order) == ScanFrom(reg, order, 1, {})

\* The orders in which registry_dir.glob("*.json") may yield the present files.
GlobOrders(reg) ==
    LET present == {s \in DOMAIN reg : reg[s] # FAbsent}
    IN  {o \in UNION {[1..k -> present] : k \in 0..Cardinality(present)} :
            /\ Len(o) = Cardinality(present)
            /\ \A i, j \in 1..Len(o) : i # j => o[i] # o[j]}

\* The file registry_dir / f"{agent_id}.json".
FileNamed(reg, a_id) == IF a_id \in DOMAIN reg THEN reg[a_id] ELSE FAbsent

\* _get_agent_info_from_registry: result "none" (return None), "value" (what
\* json.load returned) or "raise" (UnicodeDecodeError is neither
\* JSONDecodeError nor OSError).
_get_agent_info_from_registry(reg, a_id) ==
    LET f == FileNamed(reg, a_id)
    IN  CASE f = FAbsent -> [result |-> "none", value |-> f, opened |-> {}]
          [] f[1] \in {"oserror", "badjson"} ->
                 [result |-> "none", value |-> f, opened |-> {a_id}]
          [] f[1] = "baddecode" ->
                 [result |-> "raise", value |-> f, opened |-> {a_id}]
          [] OTHER -> [result |-> "value", value |-> f, opened |-> {a_id}]

\* if agent_info: of main() for what _get_agent_info_from_registry returned.
InfoTruthy(f) == IF IsObject(f) THEN DictTruthy(FieldsOf(f)) ELSE f[2]

-----------------------------------------------------------------------------
(* Inputs of an invocation *)

A1 == <<"a","1">>
B2 == <<"b","2">>
TypeT == <<"c","l","a","u","d","e">>
NameN == <<"N","e","o">>
RoleR == <<"d","e","v">>

EnvIds == {None, <<>>, A1}
EnvTypes == {None, TypeT}
EnvPorts == {None, <<"8","1","0","0">>, <<"x">>}
Envs == [id : EnvIds, type : EnvTypes, port : EnvPorts]

Rec(id, type, prt, pid, nm, rl) ==
    [agent_id |-> id, agent_type |-> type, port |-> prt, pid |-> pid,
     name |-> nm, role |-> rl]

NameRoles == {<<JNull, JNull>>, <<JStr(NameN), JNull>>, <<JNull, JStr(RoleR)>>,
              <<JStr(NameN), JStr(RoleR)>>}

\* Registry records: records of the parent process (pid Ppid, as a number or a
\* numeric string), complete or lacking the id or the type; records with a
\* missing, non-numeric or other pid; the empty object.
Objects ==
    {Rec(JStr(A1), JStr(TypeT), JInt(80), JInt(Ppid), nr[1], nr[2]) : nr \in NameRoles}
    \cup {Rec(JStr(A1), JStr(TypeT), JNull, JNull, nr[1], nr[2]) : nr \in NameRoles}
    \cup {Rec(JStr(A1), JStr(TypeT), JStr(<<"8","0">>), JStr(<<"7">>), JNull, JNull),
          Rec(JNull, JStr(TypeT), JInt(80), JInt(Ppid), JNull, JNull),
          Rec(JStr(<<>>), JStr(TypeT), JInt(80), JInt(Ppid), JNull, JNull),
          Rec(JStr(A1), JNull, JNull, JInt(Ppid), JNull, JNull),
          Rec(JStr(B2), JStr(TypeT), JInt(80), JStr(<<"x">>), JNull, JNull),
          Rec(JStr(B2), JStr(TypeT), JInt(80), JInt(8), JNull, JNull),
          Rec(JNull, JNull, JNull, JNull, JNull, JNull)}

FileContents ==
    {FAbsent, FOSError, FBadDecode, FBadJson, FNonObject(TRUE), FNonObject(FALSE)}
    \cup {FObject(o) : o \in Objects}

Stems == {A1, B2}
Registries == [Stems -> FileContents]

\* What the synapse.settings provider does: the import fails, load() or
\* get_instruction() raises, or get_instruction() returns a value.
ProviderText == <<"p","r","o","v">>
PAbsent == <<"absent">>
PRaises == <<"raises">>
PReturns(v) == <<"returns", v>>
ProviderOutcomes == {PAbsent, PRaises} \cup {PReturns(v) : v \in {None, <<>>, ProviderText}}

\* What a default.md is: absent, present but read_text raises OSError, bytes
\* that are not UTF-8 (UnicodeDecodeError), or a text.
MdAbsent == <<"absent">>
MdOSError == <<"oserror">>
MdBadDecode == <<"baddecode">>
MdText(t) == <<"text", t>>
MdTemplates ==
    {<<>>,
     OpenTag(AGENT_ROLE) \o <<"r","=">> \o Placeholder(AGENT_ROLE) \o CloseTag(AGENT_ROLE),
     <<"i","d","=">> \o Placeholder(AGENT_ID) \o <<" ","p","o","r","t","=">>
         \o Placeholder(PORT)}
MdOutcomes == {MdAbsent, MdOSError, MdBadDecode} \cup {MdText(t) : t \in MdTemplates}

Unasked == <<"unasked">>
Unread == <<"unread">>

ErrMissingEnv ==
    <<"Error: Synapse environment not found.\nRequired: SYNAPSE_AGENT_ID, SYNAPSE_AGENT_TYPE, SYNAPSE_PORT\n\nThis script should be run from within a Synapse-managed agent.\nStart an agent with: synapse claude">>
ErrNoInstruction(a_type) ==
    <<"Error: No instruction found for agent type '">> \o a_type \o <<"'.">>
Traceback == <<"Traceback (most recent call last): uncaught exception">>

-----------------------------------------------------------------------------
(* main() *)

MainIdle ==
    /\ pc = "idle"
    /\ env = [id |-> None, type |-> None, port |-> None]
    /\ registry = [s \in Stems |-> FAbsent]
    /\ agent_id = None /\ agent_type = None /\ port_str = None /\ port = 0
    /\ name = None /\ role = None /\ pid_info = <<>> /\ scanned = FALSE
    /\ files_read = {} /\ chain_args = <<>> /\ provider = Unasked
    /\ md_cwd = Unread /\ md_home = Unread /\ tier = "none"
    /\ instruction = None /\ stdout = <<>> /\ stderr = <<>> /\ exit_code = -1
CondIdle == c_text = <<>> /\ c_vars = <<>> /\ c_out = <<>> /\ c_done = FALSE
RenderIdle == r_text = <<>> /\ r_ctx = <<>> /\ r_out = <<>> /\ r_done = FALSE

\* The process before main() runs: an environment and a registry directory.
\* exit_code -1: the process has not exited.
Init ==
    /\ pc = "start"
    /\ env \in Envs
    /\ registry \in Registries
    /\ agent_id = None /\ agent_type = None /\ port_str = None /\ port = 0
    /\ name = None /\ role = None /\ pid_info = <<>> /\ scanned = FALSE
    /\ files_read = {} /\ chain_args = <<>> /\ provider = Unasked
    /\ md_cwd = Unread /\ md_home = Unread /\ tier = "none"
    /\ instruction = None /\ stdout = <<>> /\ stderr = <<>> /\ exit_code = -1
    /\ CondIdle /\ RenderIdle

\* Variant: the scan runs whatever the environment holds.
NeedsPidScan_Always(a_id, a_type, a_port) == TRUE

\* not all([agent_id, agent_type, port_str])
NeedsPidScan(a_id, a_type, a_port) ==
    ~(Truthy(a_id) /\ Truthy(a_type) /\ Truthy(a_port))

\* Variant: only agent_id is checked.
IdentityMissing_IdOnly(a_id, a_type) == ~Truthy(a_id)

\* not agent_id or not agent_type
IdentityMissing(a_id, a_type) == ~Truthy(a_id) \/ ~Truthy(a_type)

\* int(port_str) if port_str else 0, 0 on ValueError / TypeError
ParsePort(a_port) ==
    IF ~Truthy(a_port) THEN 0
    ELSE IF py_int(a_port).ok THEN py_int(a_port).val ELSE 0

\* An exception nothing catches: the interpreter prints the traceback to
\* stderr and exits with status 1.
Crash ==
    /\ pc' = "crashed"
    /\ stderr' = <<Traceback>>
    /\ exit_code' = 1

\* Lines 162-171: read the environment, decide whether to scan.
ReadEnv ==
    /\ pc = "start"
    /\ agent_id' = env.id
    /\ agent_type' = env.type
    /\ port_str' = env.port
    /\ pc' = IF NeedsPidScan(env.id, env.type, env.port) THEN "scan" ELSE "validate"
    /\ UNCHANGED <<env, registry, port, name, role, pid_info, scanned, files_read,
                   chain_args, provider, md_cwd, md_home, tier, instruction,
                   stdout, stderr, exit_code, condVars, renderVars>>

\* Lines 172-183: the parent-PID scan and the merge of the record it found.
PidScan ==
    /\ pc = "scan"
    /\ \E order \in GlobOrders(registry) :
         LET r == _find_agent_by_pid(registry, order)
             d == r.data
             nr == _extract_name_role(d)
         IN  /\ scanned' = TRUE
             /\ files_read' = files_read \cup r.opened
             /\ CASE r.result = "raise" ->
                       /\ Crash
                       /\ UNCHANGED <<agent_id, agent_type, port_str, name, role,
                                      pid_info>>
                  [] r.result = "none" ->
                       /\ pc' = "validate"
                       /\ UNCHANGED <<agent_id, agent_type, port_str, name, role,
                                      pid_info, stderr, exit_code>>
                  [] OTHER ->
                       /\ pc' = "validate"
                       /\ pid_info' = <<d>>
                       /\ agent_id' = IF d.agent_id # JNull THEN py_str(d.agent_id)
                                      ELSE agent_id
                       /\ agent_type' = IF d.agent_type # JNull
                                        THEN py_str(d.agent_type) ELSE agent_type
                       /\ port_str' = IF d.port # JNull THEN py_str(d.port)
                                      ELSE port_str
                       /\ name' = nr.name
                       /\ role' = nr.role
                       /\ UNCHANGED <<stderr, exit_code>>
    /\ UNCHANGED <<env, registry, port, chain_args, provider, md_cwd, md_home, tier,
                   instruction, stdout, condVars, renderVars>>

\* Lines 186-200: the identity check and the port.
Validate ==
    /\ pc = "validate"
    /\ IF IdentityMissing(agent_id, agent_type)
       THEN /\ stderr' = <<ErrMissingEnv>>
            /\ exit_code' = 1
            /\ pc' = "done"
            /\ port' = port
       ELSE /\ port' = ParsePort(port_str)
            /\ pc' = "lookup"
            /\ UNCHANGED <<stderr, exit_code>>
    /\ UNCHANGED <<env, registry, agent_id, agent_type, port_str, name, role,
                   pid_info, scanned, files_read, chain_args, provider, md_cwd,
                   md_home, tier, instruction, stdout, condVars, renderVars>>

\* if not name:
NeedsNameLookup(a_name, a_role) == ~Truthy(a_name)

\* Lines 203-206: the by-name lookup of name and role.
NameLookup ==
    /\ pc = "lookup"
    /\ IF ~NeedsNameLookup(name, role)
       THEN /\ pc' = "chain"
            /\ UNCHANGED <<name, role, files_read, stderr, exit_code>>
       ELSE LET r == _get_agent_info_from_registry(registry, agent_id)
            IN  /\ files_read' = files_read \cup r.opened
                /\ CASE r.result = "raise" ->
                          Crash /\ UNCHANGED <<name, role>>
                     [] r.result = "none" ->
                          /\ pc' = "chain"
                          /\ UNCHANGED <<name, role, stderr, exit_code>>
                     [] OTHER ->
                          IF ~InfoTruthy(r.value)
                          THEN /\ pc' = "chain"
                               /\ UNCHANGED <<name, role, stderr, exit_code>>
                          ELSE IF ~IsObject(r.value)
                          THEN Crash /\ UNCHANGED <<name, role>>
                          ELSE /\ pc' = "chain"
                               /\ name' = _extract_name_role(FieldsOf(r.value)).name
                               /\ role' = _extract_name_role(FieldsOf(r.value)).role
                               /\ UNCHANGED <<stderr, exit_code>>
    /\ UNCHANGED <<env, registry, agent_id, agent_type, port_str, port, pid_info,
                   scanned, chain_args, provider, md_cwd, md_home, tier,
                   instruction, stdout, condVars, renderVars>>

\* Variant: only None counts as no instruction.
NoInstruction_NoneOnly(instr) == instr = None

\* if not instruction: ... return 1 / print(instruction); return 0
NoInstruction(instr) == ~Truthy(instr)

\* Lines 211-219 for the value _get_instruction returned.
Finish(instr) ==
    /\ instruction' = instr
    /\ pc' = "done"
    /\ IF NoInstruction(instr)
       THEN /\ stderr' = <<ErrNoInstruction(agent_type)>>
            /\ exit_code' = 1
            /\ stdout' = stdout
       ELSE /\ stdout' = <<instr>>
            /\ exit_code' = 0
            /\ stderr' = stderr

\* Variant: the home directory is searched first.
SearchDirs_HomeFirst == <<"home", "cwd">>

\* The directories _fallback_instruction searches, in order:
\* Path.cwd() / ".synapse", then Path.home() / ".synapse".
SearchDirs == <<"cwd", "home">>

\* Whether _get_instruction returns what the provider did (otherwise it goes
\* on to _fallback_instruction): both except clauses pass.
ProviderAnswers(outcome) == outcome[1] = "returns"

\* Line 209 and lines 86-97: the call of _get_instruction and the provider.
AskProvider ==
    /\ pc = "chain"
    /\ chain_args' = <<[agent_type |-> agent_type, agent_id |-> agent_id,
                        port |-> port, name |-> name, role |-> role]>>
    /\ \E outcome \in ProviderOutcomes :
         /\ provider' = outcome
         /\ IF ProviderAnswers(outcome)
            THEN /\ tier' = "provider"
                 /\ Finish(outcome[2])
            ELSE /\ pc' = "fallback_" \o SearchDirs[1]
                 /\ UNCHANGED <<tier, instruction, stdout, stderr, exit_code>>
    /\ UNCHANGED <<env, registry, agent_id, agent_type, port_str, port, name, role,
                   pid_info, scanned, files_read, md_cwd, md_home, condVars,
                   renderVars>>

\* The loop goes on to the next directory: default_md.exists() is false, or
\* read_text raised OSError.
MdSkipped(outcome) == outcome[1] \in {"absent", "oserror"}

\* One iteration of the loop of lines 131-143 on the k-th search directory.
ReadDefaultMd(k, outcome) ==
    /\ pc = "fallback_" \o SearchDirs[k]
    /\ IF SearchDirs[k] = "cwd"
       THEN md_cwd' = outcome /\ md_home' = md_home
       ELSE md_home' = outcome /\ md_cwd' = md_cwd
    /\ CASE outcome[1] = "text" ->
              /\ tier' = SearchDirs[k]
              /\ Finish(render_template(outcome[2], agent_id, port, name, role))
         [] outcome[1] # "text" /\ ~MdSkipped(outcome) ->
              /\ Crash
              /\ UNCHANGED <<tier, instruction, stdout>>
         [] OTHER ->
              /\ pc' = IF k < Len(SearchDirs) THEN "fallback_" \o SearchDirs[k + 1]
                       ELSE "hardcoded"
              /\ UNCHANGED <<tier, instruction, stdout, stderr, exit_code>>
    /\ UNCHANGED <<env, registry, agent_id, agent_type, port_str, port, name, role,
                   pid_info, scanned, files_read, chain_args, provider, condVars,
                   renderVars>>

FallbackCwd == \E outcome \in MdOutcomes : ReadDefaultMd(1, outcome)
FallbackHome == \E outcome \in MdOutcomes : ReadDefaultMd(2, outcome)

\* Lines 146-158: the built-in text.
Hardcoded ==
    /\ pc = "hardcoded"
    /\ tier' = "hardcoded"
    /\ Finish(hardcoded_instruction(agent_id, port, name))
    /\ UNCHANGED <<env, registry, agent_id, agent_type, port_str, port, name, role,
                   pid_info, scanned, files_read, chain_args, provider, md_cwd,
                   md_home, condVars, renderVars>>

Next ==
    \/ ReadEnv
    \/ PidScan
    \/ Validate
    \/ NameLookup
    \/ AskProvider
    \/ FallbackCwd
    \/ FallbackHome
    \/ Hardcoded

Spec == Init /\ [][Next]_vars

-----------------------------------------------------------------------------
(* _process_conditionals on drawn templates and dicts *)

RECURSIVE Concat(_)
Concat(ps) == IF ps = <<>> THEN <<>> ELSE Head(ps) \o Concat(Tail(ps))

\* All sequences of at most n elements of set.
SeqsUpTo(set, n) == UNION {[1..k -> set] : k \in 0..n}

VarA == <<"a">>
VarB == <<"b">>

\* Templates are built of at most MaxPieces pieces.
MaxPieces == 5
CondPieces == {OpenTag(VarA), CloseTag(VarA), OpenTag(VarB), CloseTag(VarB),
               <<"X", "\n">>}
CondTexts == {Concat(ps) : ps \in SeqsUpTo(CondPieces, MaxPieces)}

\* Dicts over the keys a and b, in either insertion order; "" is falsy.
CondValues == {<<>>, <<"x">>}
CondDicts ==
    {<<>>}
    \cup {<<<<n, v>>>> : n \in {VarA, VarB}, v \in CondValues}
    \cup {<<<<VarA, v>>, <<VarB, w>>>> : v \in CondValues, w \in CondValues}
    \cup {<<<<VarB, w>>, <<VarA, v>>>> : v \in CondValues, w \in CondValues}

InitCond ==
    /\ MainIdle /\ RenderIdle
    /\ c_text \in CondTexts
    /\ c_vars \in CondDicts
    /\ c_out = <<>>
    /\ c_done = FALSE

RunConditionals ==
    /\ ~c_done
    /\ c_out' = _process_conditionals(c_text, c_vars)
    /\ c_done' = TRUE
    /\ UNCHANGED <<c_text, c_vars, mainVars, renderVars>>

NextCond == RunConditionals

SpecCond == InitCond /\ [][NextCond]_vars

-----------------------------------------------------------------------------
(* The templating of _fallback_instruction on drawn templates and values *)

MaxRenderPieces == 3
RenderPieces ==
    {<<"i","d","=">> \o Placeholder(AGENT_ID),
     <<" ","p","o","r","t","=">> \o Placeholder(PORT),
     Placeholder(AGENT_NAME), Placeholder(AGENT_ROLE),
     OpenTag(AGENT_ROLE), CloseTag(AGENT_ROLE), LB, RB}
RenderTexts == {Concat(ps) : ps \in SeqsUpTo(RenderPieces, MaxRenderPieces)}

\* A value that is itself a conditional span.
SpanValue == OpenTag(AGENT_ROLE) \o <<"Z">> \o CloseTag(AGENT_ROLE)

RenderContexts ==
    [agent_id : {A1, Placeholder(PORT)},
     port : {8100, 0},
     name : {None, PORT, SpanValue},
     role : {None, RoleR}]

InitRender ==
    /\ MainIdle /\ CondIdle
    /\ r_text \in RenderTexts
    /\ r_ctx \in {<<c>> : c \in RenderContexts}
    /\ r_out = <<>>
    /\ r_done = FALSE

RunRender ==
    /\ ~r_done
    /\ r_out' = render_template(r_text, r_ctx[1].agent_id, r_ctx[1].port,
                                r_ctx[1].name, r_ctx[1].role)
    /\ r_done' = TRUE
    /\ UNCHANGED <<r_text, r_ctx, mainVars, condVars>>

NextRender == RunRender

SpecRender == InitRender /\ [][NextRender]_vars

-----------------------------------------------------------------------------
(* Properties of main(), checked under Spec *)

Unresolved == agent_id \in {None, <<>>} \/ agent_type \in {None, <<>>}

\* C1: if agent_id or agent_type is still unset (None or empty) after the
\* environment step and the parent-PID scan, main exits with status 1, its
\* message is on stderr only, stdout is empty and the instruction provider
\* chain is never reached.
C1_MissingIdentityExits ==
    (Unresolved /\ pc \notin {"start", "scan", "validate", "crashed"}) =>
        /\ pc = "done"
        /\ exit_code = 1
        /\ stderr = <<ErrMissingEnv>>
        /\ stdout = <<>>
        /\ chain_args = <<>>
        /\ provider = Unasked /\ md_cwd = Unread /\ md_home = Unread
        /\ instruction = None

\* The scan found the parent's record, the record has no agent_type and the
\* environment gives none: the invocation ended with status 1.
C1_Witness ==
    /\ pc = "done" /\ scanned /\ pid_info # <<>>
    /\ agent_id = A1 /\ agent_type = None
    /\ exit_code = 1

\* The three variables are set, non-empty, and the port is a decimal numeral.
EnvValid ==
    /\ env.id \notin {None, <<>>}
    /\ env.type \notin {None, <<>>}
    /\ env.port \notin {None, <<>>}
    /\ \A i \in 1..Len(env.port) : IsDigit(env.port[i])

ChainGetsEnv ==
    chain_args # <<>> =>
        /\ chain_args[1].agent_id = env.id
        /\ chain_args[1].agent_type = env.type
        /\ py_str_int(chain_args[1].port) = env.port

\* C2 (as stated): with a valid triple in the environment the values passed to
\* the chain are the environment's, the PID scan is not run and no registry
\* file is read during the invocation.
C2_NoRegistryFileRead ==
    EnvValid => (ChainGetsEnv /\ ~scanned /\ files_read = {})

\* C2 (amended): with a valid triple in the environment the values passed to
\* the chain are the environment's and the PID scan is not run; the one
\* registry file that may be read is {agent_id}.json, by the by-name lookup.
C2_EnvUsedVerbatim ==
    EnvValid => (ChainGetsEnv /\ ~scanned /\ pid_info = <<>>
                 /\ files_read \subseteq {env.id})

\* A valid environment, the chain was called, and a1.json was read.
C2_Witness ==
    /\ EnvValid /\ pc = "done" /\ exit_code = 0
    /\ chain_args # <<>> /\ files_read = {A1}

ProviderFell == provider \in {PAbsent, PRaises}
Skipped(md) == md \in {MdAbsent, MdOSError}

HasParentRecord ==
    \E st \in Stems : IsObject(registry[st]) /\ PidMatches(FieldsOf(registry[st]).pid)

\* C9: a malformed or unreadable registry file is never fatal: no exception
\* escapes the PID scan or the by-name lookup (the invocation reaches the
\* chain or its normal exit), and a scan that ran finds the parent's record
\* when the directory holds one.
C9_RegistryNeverFatal ==
    /\ pc = "crashed" => chain_args # <<>>
    /\ (scanned /\ HasParentRecord) => pid_info # <<>>

NoNameRole == [name |-> None, role |-> None]
PidNameRole == IF pid_info = <<>> THEN NoNameRole ELSE _extract_name_role(pid_info[1])
FileNameRole(a_id) ==
    IF IsObject(FileNamed(registry, a_id))
    THEN _extract_name_role(FieldsOf(FileNamed(registry, a_id)))
    ELSE NoNameRole

\* C10: of the name and role passed to the chain, a value the PID-matched
\* record gave is kept, and a field unset after the environment step or the
\* scan is filled from {agent_id}.json whenever that file provides it.
C10_NameRoleMerge ==
    chain_args # <<>> =>
        LET a == chain_args[1]
            f == FileNameRole(a.agent_id)
        IN  /\ PidNameRole.name # None => a.name = PidNameRole.name
            /\ PidNameRole.role # None => a.role = PidNameRole.role
            /\ (PidNameRole.name = None /\ f.name # None) => a.name = f.name
            /\ (PidNameRole.role = None /\ f.role # None) => a.role = f.role

-----------------------------------------------------------------------------
(* Properties of _process_conditionals, checked under SpecCond *)

CondNames == {VarA, VarB}

Occurrences(text, lit) == {i \in 1..Len(text) : MatchAt(text, i, lit)}

\* An open tag of name n with a close tag of the same name after it.
HasSpan(text, n) ==
    \E o \in Occurrences(text, OpenTag(n)) :
        Find(text, CloseTag(n), o + Len(OpenTag(n))) > 0

\* variables.get(n): None when n is no key.
DictValue(variables, n) ==
    IF \E i \in 1..Len(variables) : variables[i][1] = n
    THEN variables[CHOOSE i \in 1..Len(variables) : variables[i][1] = n][2]
    ELSE None

\* The template holds one open tag, of name n, with a close tag of name n
\* after it: one span, no other span to pair its tags with.
OnlySpan(text, n) ==
    /\ Cardinality(Occurrences(text, OpenTag(n))) = 1
    /\ \A m \in CondNames \ {n} : Occurrences(text, OpenTag(m)) = {}
    /\ HasSpan(text, n)

\* The span of OnlySpan rewritten: its inner content when n is a key with a
\* non-empty value, nothing otherwise; the text around it unchanged.
SpanRewritten(text, variables, n) ==
    LET o == Find(text, OpenTag(n), 1)
        c == Find(text, CloseTag(n), o + Len(OpenTag(n)))
    IN  Slice(text, 1, o - 1)
        \o (IF Truthy(DictValue(variables, n))
            THEN Slice(text, o + Len(OpenTag(n)), c - 1) ELSE <<>>)
        \o Slice(text, c + Len(CloseTag(n)), Len(text))

\* C5: a span {{#name}}...{{/name}} (the open tag with the first following
\* close tag of the same name) becomes its inner content when name is a key
\* with a non-empty value and is removed when name is a key with an empty
\* value or no key; the text outside the span is unchanged.
C5_SpanRewritten ==
    c_done =>
        \A n \in CondNames :
            OnlySpan(c_text, n) => c_out = SpanRewritten(c_text, c_vars, n)

\* C7: unmatched delimiters are left untouched: a template in which no open
\* tag has a following close tag of the same name comes out as it went in.
C7_UnmatchedUntouched ==
    (c_done /\ \A n \in CondNames : ~HasSpan(c_text, n)) => c_out = c_text

Reverse(s) == [i \in 1..Len(s) |-> s[Len(s) + 1 - i]]

\* The open and close tags of a and b in text, in order, from position i.
RECURSIVE TagsFrom(_, _)
TagsFrom(text, i) ==
    IF i > Len(text) THEN <<>>
    ELSE IF \E n \in CondNames : MatchAt(text, i, OpenTag(n))
    THEN LET n == CHOOSE n \in CondNames : MatchAt(text, i, OpenTag(n))
         IN  <<<<"open", n>>>> \o TagsFrom(text, i + Len(OpenTag(n)))
    ELSE IF \E n \in CondNames : MatchAt(text, i, CloseTag(n))
    THEN LET n == CHOOSE n \in CondNames : MatchAt(text, i, CloseTag(n))
         IN  <<<<"close", n>>>> \o TagsFrom(text, i + Len(CloseTag(n)))
    ELSE TagsFrom(text, i + 1)

\* Every close tag closes the innermost open span, every span is closed, and
\* no span lies inside a span of its own name.
RECURSIVE Balanced(_, _)
Balanced(tags, stack) ==
    IF tags = <<>> THEN stack = <<>>
    ELSE IF Head(tags)[1] = "open"
    THEN /\ \A k \in 1..Len(stack) : stack[k] # Head(tags)[2]
         /\ Balanced(Tail(tags), <<Head(tags)[2]>> \o stack)
    ELSE /\ stack # <<>>
         /\ Head(stack) = Head(tags)[2]
         /\ Balanced(Tail(tags), Tail(stack))

ProperlyNested(text) == Balanced(TagsFrom(text, 1), <<>>)

BothKeys == Len(c_vars) = 2

-----------------------------------------------------------------------------
(* Properties of the placeholder substitution, checked under SpecRender *)

PlaceholderKeys == {AGENT_ID, AGENT_NAME, AGENT_ROLE, PORT}

\* The value each placeholder stands for: agent_name falls back to agent_id,
\* agent_role to the empty text, the port is written in decimal.
PlaceholderValues(c) ==
    [k \in PlaceholderKeys |->
        CASE k = AGENT_ID -> c.agent_id
          [] k = AGENT_NAME -> IF c.name \in {None, <<>>} THEN c.agent_id ELSE c.name
          [] k = AGENT_ROLE -> IF c.role \in {None, <<>>} THEN <<>> ELSE c.role
          [] OTHER -> py_str_int(c.port)]

\* One pass over text from position i: each placeholder is replaced by its
\* value, what is inserted is not looked at again, all else is copied.
RECURSIVE SubstituteOnce(_, _, _)
SubstituteOnce(text, i, values) ==
    IF i > Len(text) THEN <<>>
    ELSE IF \E k \in PlaceholderKeys : MatchAt(text, i, Placeholder(k))
    THEN LET k == CHOOSE k \in PlaceholderKeys : MatchAt(text, i, Placeholder(k))
         IN  values[k] \o SubstituteOnce(text, i + Len(Placeholder(k)), values)
    ELSE <<text[i]>> \o SubstituteOnce(text, i + 1, values)

BraceFree(text) == \A i \in 1..Len(text) : text[i] \notin {"{", "}"}

\* The template after conditional processing.
RenderProcessed ==
    _process_conditionals(r_text,
        <<<<AGENT_ROLE, PlaceholderValues(r_ctx[1])[AGENT_ROLE]>>>>)

\* No value holds a brace, and every brace of the processed template belongs
\* to one of the four placeholders.
NoBraceToComplete ==
    /\ \A k \in PlaceholderKeys : BraceFree(PlaceholderValues(r_ctx[1])[k])
    /\ BraceFree(SubstituteOnce(RenderProcessed, 1,
                                [k \in PlaceholderKeys |-> <<"@">>]))

\* C6 (as stated): after conditional processing every placeholder is replaced
\* by exactly its value, a substituted value is not rewritten by a later
\* replacement, and every other character is unchanged.
C6_ValuesVerbatim ==
    r_done => r_out = SubstituteOnce(RenderProcessed, 1, PlaceholderValues(r_ctx[1]))

\* C6 (amended): the replacements run one after another (agent_id, agent_name,
\* agent_role, port), so a later one also rewrites placeholder text that an
\* earlier value holds or completes.  When no value holds a brace and the
\* processed template has no brace outside its placeholders, every
\* placeholder is replaced by exactly its value and all else is unchanged;
\* and a value is never rewritten by conditional processing.
C6_SequentialSubstitution ==
    r_done =>
        /\ NoBraceToComplete =>
               r_out = SubstituteOnce(RenderProcessed, 1, PlaceholderValues(r_ctx[1]))
        /\ (r_ctx[1].name = SpanValue
            /\ Contains(RenderProcessed, Placeholder(AGENT_NAME))) =>
               Contains(r_out, SpanValue)

\* The example of the specification: "id={{agent_id}} port={{port}}" with
\* agent_id a1 and port 8100 gives "id=a1 port=8100".
C6_Witness ==
    /\ r_done
    /\ r_text = <<"i","d","=">> \o Placeholder(AGENT_ID)
                \o <<" ","p","o","r","t","=">> \o Placeholder(PORT)
    /\ r_ctx[1].agent_id = A1 /\ r_ctx[1].port = 8100
    /\ r_out = <<"i","d","=","a","1"," ","p","o","r","t","=","8","1","0","0">>

=============================================================================
